---- MODULE Spec2Model ----
(***************************************************************************)
(* Camera (gaze_camera_control.py): the gaze-to-orientation filter, and    *)
(* the key handlers of Game3D.run that change its tunables; a second       *)
(* Camera instance; DemoApp (demo_pygame_gaze.py), which feeds a Camera    *)
(* from the webcam or from the mouse.                                      *)
(*                                                                         *)
(* Python floats are modelled as exact rationals <<n, d>> in lowest terms  *)
(* with d > 0; None is the pair <<0, 0>>.                                         *)
(***************************************************************************)
EXTENDS Integers, Sequences, FiniteSets, TLC

VARIABLES
    yaw,             \* Camera.yaw
    pitch,           \* Camera.pitch
    smoothing,       \* Camera.smoothing
    sensitivity,     \* Camera.sensitivity
    dead_zone,       \* Camera.dead_zone
    history_size,    \* Camera.history_size
    gaze_history_x,  \* Camera.gaze_history_x
    gaze_history_y,  \* Camera.gaze_history_y
    raised,          \* an exception has propagated out of update_from_gaze
    op,              \* the last call: [kind, gx, gy]
    nSteps,          \* number of calls so far that were not absent updates
    nUpdates,        \* number of non-absent updates so far
    other,           \* a second Camera instance, as a record of its fields
    app              \* DemoApp: the fields that select the gaze source

camera == <<yaw, pitch, gaze_history_x, gaze_history_y>>
config == <<smoothing, sensitivity, dead_zone, history_size>>
vars == <<yaw, pitch, smoothing, sensitivity, dead_zone, history_size,
          gaze_history_x, gaze_history_y, raised, op, nSteps, nUpdates,
          other, app>>

-----------------------------------------------------------------------------
(* Bounds of the model *)
MaxSteps == 4
MaxSensitivity == 90
MaxDen == 20000

-----------------------------------------------------------------------------
(* Rational arithmetic *)
None == <<0, 0>>

Abs(n) == IF n < 0 THEN -n ELSE n

RECURSIVE GCD(_, _)
GCD(a, b) == IF b = 0 THEN a ELSE GCD(b, a % b)

Norm(n, d) == LET g == GCD(Abs(n), d) IN <<n \div g, d \div g>>

R(n, d) == Norm(n, d)
RInt(n) == <<n, 1>>
Zero == <<0, 1>>
One == <<1, 1>>

RNeg(a) == <<-a[1], a[2]>>
RAdd(a, b) ==
    LET g == GCD(a[2], b[2])
    IN  Norm(a[1] * (b[2] \div g) + b[1] * (a[2] \div g), (a[2] \div g) * b[2])
RSub(a, b) == RAdd(a, RNeg(b))
RMul(a, b) ==
    LET g1 == GCD(Abs(a[1]), b[2])
        g2 == GCD(Abs(b[1]), a[2])
    IN  <<(a[1] \div g1) * (b[1] \div g2), (a[2] \div g2) * (b[2] \div g1)>>
RInv(a) == IF a[1] < 0 THEN <<-a[2], -a[1]>> ELSE <<a[2], a[1]>>
RDiv(a, b) == RMul(a, RInv(b))
RLt(a, b) == RSub(a, b)[1] < 0
RLe(a, b) == RSub(a, b)[1] <= 0
RAbs(a) == <<Abs(a[1]), a[2]>>
RMin(a, b) == IF RLt(b, a) THEN b ELSE a
RMax(a, b) == IF RLt(a, b) THEN b ELSE a
RSign(a) == IF a[1] > 0 THEN One ELSE IF a[1] < 0 THEN RNeg(One) ELSE Zero

RECURSIVE RSum(_)
RSum(s) == IF s = <<>> THEN Zero ELSE RAdd(s[1], RSum(Tail(s)))

-----------------------------------------------------------------------------
(* Camera.update_from_gaze *)
PitchLimit == 80

(* variant: the offset is removed and the range is not doubled *)
CentreNoScale(g) == RSub(g, R(1, 2))
Centre(g) == RMul(RSub(g, R(1, 2)), RInt(2))

(* variant: appends and never evicts *)
PushNoEvict(h, v, size) == Append(h, v)
Push(h, v, size) ==
    LET a == Append(h, v) IN IF Len(a) > size THEN Tail(a) ELSE a

(* variant: the sum is not divided *)
MeanNoDivide(h) == RSum(h)
(* variant: divides by the capacity, not by the number of entries held *)
MeanByCapacity(h) == RDiv(RSum(h), RInt(history_size))
Mean(h) == RDiv(RSum(h), RInt(Len(h)))

(* variant: the band is cut out and the rest is not rescaled *)
DeadZoneNoRescale(v, dz) ==
    IF RLt(RAbs(v), dz) THEN Zero ELSE RSub(v, RMul(RSign(v), dz))
DeadZone(v, dz) ==
    IF RLt(RAbs(v), dz) THEN Zero
    ELSE RDiv(RSub(v, RMul(RSign(v), dz)), RSub(One, dz))

(* variant: the target is not clamped *)
ClampPitchNone(t) == t
ClampPitch(t) == RMax(RInt(-PitchLimit), RMin(RInt(PitchLimit), t))

TargetYaw(hx, dz, sens) == RMul(DeadZone(Mean(hx), dz), sens)
(* variant: the vertical axis is not inverted *)
TargetPitchUpright(hy, dz, sens) == ClampPitch(RMul(DeadZone(Mean(hy), dz), sens))
TargetPitch(hy, dz, sens) == ClampPitch(RMul(RNeg(DeadZone(Mean(hy), dz)), sens))

(* variant: the difference is taken the wrong way round *)
LerpAway(cur, target, s) == RAdd(cur, RMul(RSub(cur, target), s))
Lerp(cur, target, s) == RAdd(cur, RMul(RSub(target, cur), s))

IsAbsent(gx, gy) == gx = None \/ gy = None

(* "return" on an absent sample; the variant treats it as a centred sample *)
DecayOnAbsent ==
    /\ yaw' = Lerp(yaw, Zero, smoothing)
    /\ pitch' = Lerp(pitch, Zero, smoothing)
    /\ UNCHANGED <<gaze_history_x, gaze_history_y>>
HoldOnAbsent == UNCHANGED camera

UpdateFromGaze(gx, gy) ==
    /\ ~raised
    /\ IF IsAbsent(gx, gy)
       THEN /\ op' = [kind |-> "absent", gx |-> gx, gy |-> gy]
            /\ HoldOnAbsent
            /\ UNCHANGED <<config, raised, nSteps, nUpdates>>
       ELSE /\ nSteps < MaxSteps
            /\ yaw[2] <= MaxDen /\ pitch[2] <= MaxDen
            /\ LET hx == Push(gaze_history_x, Centre(gx), history_size)
                   hy == Push(gaze_history_y, Centre(gy), history_size)
               IN  /\ gaze_history_x' = hx
                   /\ gaze_history_y' = hy
                   /\ IF Len(hx) = 0
                      THEN /\ raised' = TRUE
                           /\ UNCHANGED <<yaw, pitch>>
                      ELSE /\ yaw' = Lerp(yaw, TargetYaw(hx, dead_zone, sensitivity), smoothing)
                           /\ pitch' = Lerp(pitch, TargetPitch(hy, dead_zone, sensitivity), smoothing)
                           /\ UNCHANGED raised
            /\ op' = [kind |-> "update", gx |-> gx, gy |-> gy]
            /\ nSteps' = nSteps + 1
            /\ nUpdates' = nUpdates + 1
            /\ UNCHANGED config

-----------------------------------------------------------------------------
(* Game3D.run: key handlers *)
SensitivityStep == 5
MinSensitivity == 5

Key(k) == [kind |-> k, gx |-> None, gy |-> None]

KeyUp ==
    /\ ~raised /\ nSteps < MaxSteps
    /\ sensitivity[1] + SensitivityStep <= MaxSensitivity
    /\ sensitivity' = RAdd(sensitivity, RInt(SensitivityStep))
    /\ op' = Key("K_UP") /\ nSteps' = nSteps + 1
    /\ UNCHANGED <<camera, smoothing, dead_zone, history_size, raised, nUpdates>>

KeyDown ==
    /\ ~raised /\ nSteps < MaxSteps
    /\ sensitivity' = RMax(RInt(MinSensitivity), RSub(sensitivity, RInt(SensitivityStep)))
    /\ op' = Key("K_DOWN") /\ nSteps' = nSteps + 1
    /\ UNCHANGED <<camera, smoothing, dead_zone, history_size, raised, nUpdates>>

(* variant: the handler also starts the camera afresh *)
KeyEqualsReset ==
    /\ ~raised /\ nSteps < MaxSteps
    /\ smoothing' = RMin(R(1, 2), RAdd(smoothing, R(1, 20)))
    /\ yaw' = Zero /\ pitch' = Zero
    /\ gaze_history_x' = <<>> /\ gaze_history_y' = <<>>
    /\ op' = Key("K_EQUALS") /\ nSteps' = nSteps + 1
    /\ UNCHANGED <<sensitivity, dead_zone, history_size, raised, nUpdates>>
KeyEquals ==
    /\ ~raised /\ nSteps < MaxSteps
    /\ smoothing' = RMin(R(1, 2), RAdd(smoothing, R(1, 20)))
    /\ op' = Key("K_EQUALS") /\ nSteps' = nSteps + 1
    /\ UNCHANGED <<camera, sensitivity, dead_zone, history_size, raised, nUpdates>>

(* variant: the lower limit 0.05 is forgotten *)
KeyMinusNoFloor ==
    /\ ~raised /\ nSteps < MaxSteps
    /\ smoothing' = RSub(smoothing, R(1, 20))
    /\ op' = Key("K_MINUS") /\ nSteps' = nSteps + 1
    /\ UNCHANGED <<camera, sensitivity, dead_zone, history_size, raised, nUpdates>>
KeyMinus ==
    /\ ~raised /\ nSteps < MaxSteps
    /\ smoothing' = RMax(R(1, 20), RSub(smoothing, R(1, 20)))
    /\ op' = Key("K_MINUS") /\ nSteps' = nSteps + 1
    /\ UNCHANGED <<camera, sensitivity, dead_zone, history_size, raised, nUpdates>>

-----------------------------------------------------------------------------
(* Camera has no reset attribute: camera.reset() raises AttributeError and
   leaves every field as it was. *)
Reset ==
    /\ ~raised
    /\ raised' = TRUE
    /\ op' = Key("reset")
    /\ UNCHANGED <<camera, config, nSteps, nUpdates>>

-----------------------------------------------------------------------------
(* Inputs: gaze samples (x, y); the last one lies outside [0,1] x [0,1] *)
Samples ==
    { <<R(1, 2), R(1, 2)>>, <<R(1, 1), R(1, 2)>>, <<R(0, 1), R(1, 1)>>,
      <<R(1, 1), R(2, 5)>>, <<R(3, 2), R(-1, 2)>> }
Absent == { <<None, None>>, <<None, R(1, 2)>>, <<R(1, 2), None>> }

(* Camera.__init__ *)
Fresh ==
    /\ yaw = Zero
    /\ pitch = Zero
    /\ gaze_history_x = <<>>
    /\ gaze_history_y = <<>>

Start ==
    /\ Fresh
    /\ raised = FALSE
    /\ op = Key("init")
    /\ nSteps = 0
    /\ nUpdates = 0

(* Camera(), as a record *)
NewCamera ==
    [yaw |-> Zero, pitch |-> Zero,
     smoothing |-> R(3, 20), sensitivity |-> RInt(60), dead_zone |-> R(1, 5),
     gaze_history_x |-> <<>>, gaze_history_y |-> <<>>, history_size |-> 5]

(* no DemoApp has been constructed *)
NoApp ==
    [running |-> FALSE, has_camera |-> FALSE, use_webcam |-> FALSE,
     cap |-> FALSE, tracker |-> FALSE,
     last |-> "none", src |-> "none", mouse |-> <<>>, gaze |-> <<None, None>>]

(* one Camera, driven directly *)
Solo == other = NewCamera /\ app = NoApp

Cfg(s, sens, dz, hs) ==
    /\ smoothing = s
    /\ sensitivity = RInt(sens)
    /\ dead_zone = dz
    /\ history_size = hs

Init == Start /\ Solo /\ Cfg(R(3, 20), 60, R(1, 5), 5)

(* A Camera whose tunables were assigned after construction (they are plain
   attributes, as Game3D.run assigns them): valid settings *)
CfgInit ==
    /\ Start /\ Solo
    /\ \/ Cfg(R(3, 20), 60, R(1, 5), 5)
       \/ Cfg(R(1, 2), 60, R(1, 5), 1)
       \/ Cfg(R(1, 2), 85, R(1, 5), 2)
       \/ Cfg(R(1, 1), 90, R(0, 1), 2)
       \/ Cfg(R(1, 20), 5, R(1, 2), 2)

(* ... and settings outside the valid ranges *)
RawInit ==
    /\ Start /\ Solo
    /\ \/ Cfg(R(0, 1), 60, R(1, 5), 1)
       \/ Cfg(R(3, 2), 60, R(1, 5), 1)
       \/ Cfg(R(1, 2), 60, R(3, 2), 1)
       \/ Cfg(R(1, 2), 60, R(-1, 5), 1)
       \/ Cfg(R(1, 2), 60, R(1, 5), 0)

Next ==
    \/ \E g \in Samples \cup Absent :
          UpdateFromGaze(g[1], g[2]) /\ UNCHANGED <<other, app>>
    \/ KeyUp /\ UNCHANGED <<other, app>>
    \/ KeyDown /\ UNCHANGED <<other, app>>
    \/ KeyEquals /\ UNCHANGED <<other, app>>
    \/ KeyMinus /\ UNCHANGED <<other, app>>
    \/ Reset /\ UNCHANGED <<other, app>>

Spec == Init /\ [][Next]_vars
CfgSpec == CfgInit /\ [][Next]_vars
RawSpec == RawInit /\ [][Next]_vars

-----------------------------------------------------------------------------
(* Two Camera instances: every field of an instance, the two history lists
   included, is created in __init__ and belongs to that instance. *)
OtherSamples == { <<R(1, 1), R(1, 2)>>, <<R(0, 1), R(1, 1)>> }

(* variant: the history lists belong to the class and both instances append
   to the same two lists *)
OtherUpdateShared(gx, gy) ==
    /\ ~raised /\ nSteps < MaxSteps
    /\ LET hx == Push(gaze_history_x, Centre(gx), other.history_size)
           hy == Push(gaze_history_y, Centre(gy), other.history_size)
       IN  /\ gaze_history_x' = hx
           /\ gaze_history_y' = hy
           /\ other' = [other EXCEPT
                 !.gaze_history_x = hx,
                 !.gaze_history_y = hy,
                 !.yaw = Lerp(other.yaw, TargetYaw(hx, other.dead_zone, other.sensitivity),
                              other.smoothing),
                 !.pitch = Lerp(other.pitch, TargetPitch(hy, other.dead_zone, other.sensitivity),
                                other.smoothing)]
    /\ op' = [kind |-> "other_update", gx |-> gx, gy |-> gy]
    /\ nSteps' = nSteps + 1
    /\ UNCHANGED <<yaw, pitch, config, raised, nUpdates, app>>
(* update_from_gaze on the second instance, with a sample that is not absent *)
OtherUpdate(gx, gy) ==
    /\ ~raised /\ nSteps < MaxSteps
    /\ LET hx == Push(other.gaze_history_x, Centre(gx), other.history_size)
           hy == Push(other.gaze_history_y, Centre(gy), other.history_size)
       IN  other' = [other EXCEPT
                 !.gaze_history_x = hx,
                 !.gaze_history_y = hy,
                 !.yaw = Lerp(other.yaw, TargetYaw(hx, other.dead_zone, other.sensitivity),
                              other.smoothing),
                 !.pitch = Lerp(other.pitch, TargetPitch(hy, other.dead_zone, other.sensitivity),
                                other.smoothing)]
    /\ op' = [kind |-> "other_update", gx |-> gx, gy |-> gy]
    /\ nSteps' = nSteps + 1
    /\ UNCHANGED <<camera, config, raised, nUpdates, app>>

(* the K_UP and K_EQUALS assignments, made to the second instance *)
OtherKeyUp ==
    /\ ~raised /\ nSteps < MaxSteps
    /\ other.sensitivity[1] + SensitivityStep <= MaxSensitivity
    /\ other' = [other EXCEPT
          !.sensitivity = RAdd(other.sensitivity, RInt(SensitivityStep))]
    /\ op' = Key("other_K_UP") /\ nSteps' = nSteps + 1
    /\ UNCHANGED <<camera, config, raised, nUpdates, app>>

OtherKeyEquals ==
    /\ ~raised /\ nSteps < MaxSteps
    /\ other' = [other EXCEPT
          !.smoothing = RMin(R(1, 2), RAdd(other.smoothing, R(1, 20)))]
    /\ op' = Key("other_K_EQUALS") /\ nSteps' = nSteps + 1
    /\ UNCHANGED <<camera, config, raised, nUpdates, app>>

TwoInit == Start /\ Cfg(R(3, 20), 60, R(1, 5), 5) /\ other = NewCamera /\ app = NoApp

TwoNext ==
    \/ Next
    \/ \E g \in OtherSamples : OtherUpdate(g[1], g[2])
    \/ OtherKeyUp
    \/ OtherKeyEquals

TwoSpec == TwoInit /\ [][TwoNext]_vars

-----------------------------------------------------------------------------
(* DemoApp (demo_pygame_gaze.py).  app.cap and app.tracker say whether the
   attribute holds an object; last_frame and last_gaze, which only feed the
   preview, are left out.  app.last is the kind of the last step, app.src the
   branch get_gaze took, app.mouse the mouse position it read (<<>> when it
   read none) and app.gaze the pair it returned. *)
WINDOW_SIZE == <<800, 600>>

MousePositions == { <<400, 300>>, <<0, 0>>, <<600, 450>> }
(* what EyeTracker.get_gaze_coordinates returns: a pair, or (None, None) *)
TrackerResults == { <<R(1, 1), R(1, 2)>>, <<None, None>> }

(* DemoApp.__init__: the imports failed (no Camera, no EyeTracker); the
   webcam opened; the webcam did not open and cleanup_cam ran *)
NewApp(imported, opened) ==
    [running |-> TRUE, has_camera |-> imported, use_webcam |-> imported /\ opened,
     cap |-> imported /\ opened, tracker |-> imported /\ opened,
     last |-> "init", src |-> "none", mouse |-> <<>>, gaze |-> <<None, None>>]

CleanupCam(a) == [a EXCEPT !.cap = FALSE, !.tracker = FALSE, !.use_webcam = FALSE]

(* run, lines 187-189: the camera is updated when both coordinates are there
   and a Camera exists *)
Feed(gx, gy) ==
    IF ~IsAbsent(gx, gy) /\ app.has_camera
    THEN UpdateFromGaze(gx, gy)
    ELSE /\ op' = [kind |-> "frame", gx |-> gx, gy |-> gy]
         /\ UNCHANGED <<camera, config, raised, nSteps, nUpdates>>

(* variant: W toggles the flag whatever its value *)
DemoKeyWToggle ==
    /\ app.running
    /\ app' = [app EXCEPT !.use_webcam = ~app.use_webcam, !.last = "key"]
    /\ op' = Key("K_w")
    /\ UNCHANGED <<camera, config, raised, nSteps, nUpdates, other>>
(* run, lines 181-183 *)
DemoKeyW ==
    /\ app.running
    /\ app' = [app EXCEPT
          !.use_webcam = IF app.use_webcam THEN ~app.use_webcam ELSE app.use_webcam,
          !.last = "key"]
    /\ op' = Key("K_w")
    /\ UNCHANGED <<camera, config, raised, nSteps, nUpdates, other>>

(* one pass of the loop body after the events: get_gaze, then the update *)
DemoFrame ==
    /\ app.running
    /\ UNCHANGED other
    /\ IF app.use_webcam /\ app.tracker /\ app.cap
       THEN \/ /\ app' = [CleanupCam(app) EXCEPT
                       !.last = "frame", !.src = "readfail",
                       !.mouse = <<>>, !.gaze = <<None, None>>]
               /\ Feed(None, None)
            \/ /\ app' = [app EXCEPT
                       !.last = "frame", !.src = "trackerror",
                       !.mouse = <<>>, !.gaze = <<None, None>>]
               /\ Feed(None, None)
            \/ \E g \in TrackerResults :
                  /\ app' = [app EXCEPT
                          !.last = "frame", !.src = "webcam",
                          !.mouse = <<>>, !.gaze = g]
                  /\ Feed(g[1], g[2])
       ELSE \E m \in MousePositions :
               LET gx == R(m[1], WINDOW_SIZE[1])
                   gy == R(m[2], WINDOW_SIZE[2])
               IN  /\ app' = [app EXCEPT
                          !.last = "frame", !.src = "mouse",
                          !.mouse = m, !.gaze = <<gx, gy>>]
                   /\ Feed(gx, gy)

(* QUIT or K_ESCAPE: the loop ends and cleanup_cam runs *)
DemoQuit ==
    /\ app.running
    /\ app' = [CleanupCam(app) EXCEPT !.running = FALSE, !.last = "quit"]
    /\ op' = Key("QUIT")
    /\ UNCHANGED <<camera, config, raised, nSteps, nUpdates, other>>

DemoInit ==
    /\ Start /\ Cfg(R(3, 20), 60, R(1, 5), 5) /\ other = NewCamera
    /\ app \in { NewApp(FALSE, FALSE), NewApp(TRUE, TRUE), NewApp(TRUE, FALSE) }

DemoNext ==
    \/ DemoKeyW
    \/ DemoFrame
    \/ DemoQuit

DemoSpec == DemoInit /\ [][DemoNext]_vars

-----------------------------------------------------------------------------
(* Properties *)
IsUpdate(o) == o.kind = "update"
Malformed(o) ==
    \/ RLt(o.gx, Zero) \/ RLt(One, o.gx)
    \/ RLt(o.gy, Zero) \/ RLt(One, o.gy)

(* C1: after every call, whatever the samples were, |pitch| <= pitch_limit. *)
C1_PitchLimit == RLe(RAbs(pitch), RInt(PitchLimit))

(* an update whose pitch target was clamped has driven pitch to the limit *)
C1_Witness ==
    /\ IsUpdate(op)
    /\ RLt(RInt(PitchLimit),
           RAbs(RMul(DeadZone(Mean(gaze_history_y), dead_zone), sensitivity)))
    /\ RAbs(pitch) = RInt(PitchLimit)

(* C2: an update with an absent sample (either coordinate None) leaves both
   histories, yaw and pitch as they were. *)
C2_AbsentHolds == [][op'.kind = "absent" => UNCHANGED camera]_vars

(* an absent update on a camera that has moved and holds history *)
C2_Witness ==
    /\ op.kind = "absent"
    /\ op.gx # None
    /\ gaze_history_x # <<>>
    /\ yaw # Zero
    /\ pitch # Zero

(* C3: the history length is 0 at construction, never exceeds history_size,
   grows by one on each non-absent update below the cap and stays at the cap
   from then on, the oldest entry leaving first. *)
C3_HistoryBounded ==
    /\ [](/\ Len(gaze_history_x) <= history_size
          /\ Len(gaze_history_y) = Len(gaze_history_x)
          /\ (nUpdates = 0 => Len(gaze_history_x) = 0))
    /\ [][IsUpdate(op') =>
            LET vx == Centre(op'.gx)
                vy == Centre(op'.gy)
            IN  IF Len(gaze_history_x) < history_size
                THEN /\ gaze_history_x' = gaze_history_x \o <<vx>>
                     /\ gaze_history_y' = gaze_history_y \o <<vy>>
                ELSE /\ Len(gaze_history_x') = history_size
                     /\ gaze_history_x' = Tail(gaze_history_x) \o <<vx>>
                     /\ gaze_history_y' = Tail(gaze_history_y) \o <<vy>>]_vars

(* a full history after more updates than it can hold: an entry was evicted *)
C3_Witness ==
    /\ IsUpdate(op)
    /\ history_size > 1
    /\ Len(gaze_history_x) = history_size
    /\ nUpdates > history_size
    /\ gaze_history_x[1] # gaze_history_x[2]

ConfigValid ==
    /\ RLt(Zero, smoothing) /\ RLe(smoothing, One)
    /\ history_size >= 1
    /\ RLe(Zero, dead_zone) /\ RLt(dead_zone, One)

(* C4: a filter with smoothing outside (0,1], history_size 0 or dead_zone
   outside [0,1) is rejected, so no filter ever works in such a
   configuration: an update that completes was made by a valid one. *)
C4_InvalidRejected == IsUpdate(op) /\ ~raised => ConfigValid

(* C5: an update whose sample has a component outside [0,1] is treated as
   absent: histories, yaw and pitch stay as they were. *)
C5_MalformedIsAbsent == [][IsUpdate(op') /\ Malformed(op') => UNCHANGED camera]_vars

Between(a, b, c) == (RLe(a, b) /\ RLe(b, c)) \/ (RLe(c, b) /\ RLe(b, a))
AllEqual(h, v) == \A i \in 1..Len(h) : h[i] = v

(* the target orientation of one sample on its own *)
SampleYaw(o) == RMul(DeadZone(Centre(o.gx), dead_zone), sensitivity)
SamplePitch(o) ==
    RMax(RInt(-PitchLimit), RMin(RInt(PitchLimit),
         RMul(RNeg(DeadZone(Centre(o.gy), dead_zone)), sensitivity)))

(* C6 as stated: from any reachable state, an update with an in-range sample
   moves yaw and pitch toward that sample's target without passing it. *)
C6_MonotoneFromAnyState ==
    [][IsUpdate(op') /\ ~Malformed(op') =>
        /\ Between(yaw, yaw', SampleYaw(op'))
        /\ Between(pitch, pitch', SamplePitch(op'))]_vars

(* C6 amended: once the history holds nothing but the sample being fed (a
   fresh filter, or history_size updates with it), each update with it
   moves yaw and pitch toward the sample's target without passing it, and
   the distance to the target shrinks by the factor 1 - smoothing. *)
C6_MonotoneOnceSettled ==
    [][/\ IsUpdate(op')
       /\ AllEqual(gaze_history_x', Centre(op'.gx))
       /\ AllEqual(gaze_history_y', Centre(op'.gy))
       => LET ty == SampleYaw(op')
              tp == SamplePitch(op')
              k == RSub(One, smoothing)
          IN  /\ Between(yaw, yaw', ty)
              /\ Between(pitch, pitch', tp)
              /\ RAbs(RSub(yaw', ty)) = RMul(k, RAbs(RSub(yaw, ty)))
              /\ RAbs(RSub(pitch', tp)) = RMul(k, RAbs(RSub(pitch, tp)))]_vars

(* the history is filled with one sample while the camera still points to
   the other side, where earlier samples had turned it *)
C6_Witness ==
    /\ IsUpdate(op)
    /\ history_size > 1
    /\ nUpdates > history_size
    /\ Len(gaze_history_x) = history_size
    /\ AllEqual(gaze_history_x, Centre(op.gx))
    /\ AllEqual(gaze_history_y, Centre(op.gy))
    /\ SampleYaw(op) # Zero
    /\ RLt(RMul(yaw, SampleYaw(op)), Zero)

FullOfCentre ==
    /\ Len(gaze_history_x) = history_size
    /\ AllEqual(gaze_history_x, Zero)
    /\ AllEqual(gaze_history_y, Zero)

(* C7 as stated: after history_size centred samples in a row, yaw and pitch
   are 0. *)
C7_CentredGivesZero == FullOfCentre => yaw = Zero /\ pitch = Zero

(* C7 amended: after history_size centred samples in a row the target is
   (0, 0): each such update multiplies yaw and pitch by 1 - smoothing, so
   they are (0, 0) when smoothing = 1 or when they were (0, 0) before; a
   filter that was fed nothing but centred samples is at (0, 0). *)
C7_CentredRelaxesToZero ==
    /\ [](nUpdates = Len(gaze_history_x)
            /\ AllEqual(gaze_history_x, Zero) /\ AllEqual(gaze_history_y, Zero)
          => yaw = Zero /\ pitch = Zero)
    /\ [][IsUpdate(op') /\ FullOfCentre' =>
            /\ yaw' = RMul(RSub(One, smoothing), yaw)
            /\ pitch' = RMul(RSub(One, smoothing), pitch)]_vars

(* a camera turned away, then fed centred samples until they fill the
   history, still turned away *)
C7_Witness ==
    /\ IsUpdate(op)
    /\ FullOfCentre
    /\ nUpdates > history_size
    /\ yaw # Zero
    /\ pitch # Zero

(* C8: reset() empties the history and sets yaw = pitch = 0, leaving the
   camera as a freshly constructed one with the same configuration. *)
C8_ResetIsFresh == [][op'.kind = "reset" => Fresh']_vars

(* the rescaling as the specification words it *)
Rescaled(v, dz) ==
    IF RLt(RAbs(v), dz) THEN Zero
    ELSE RMul(RSign(v), RDiv(RSub(RAbs(v), dz), RSub(One, dz)))

(* C9: each axis is rescaled on its own by the dead zone: 0 inside the band
   and at its edge, sign(v) * (|v| - dead_zone) / (1 - dead_zone) outside,
   +1 / -1 at v = +1 / -1, and non-decreasing in v. *)
C9_DeadZone ==
    /\ [](gaze_history_x # <<>> /\ ConfigValid =>
            LET vx == Mean(gaze_history_x)
                vy == Mean(gaze_history_y)
                P(v) == /\ DeadZone(v, dead_zone) = Rescaled(v, dead_zone)
                        /\ (RAbs(v) = dead_zone => DeadZone(v, dead_zone) = Zero)
                        /\ (RAbs(v) = One => DeadZone(v, dead_zone) = v)
            IN  /\ P(vx) /\ P(vy)
                /\ (RLe(vx, vy) =>
                       RLe(DeadZone(vx, dead_zone), DeadZone(vy, dead_zone)))
                /\ (RLe(vy, vx) =>
                       RLe(DeadZone(vy, dead_zone), DeadZone(vx, dead_zone))))
    /\ [][IsUpdate(op') /\ ~raised' =>
            /\ yaw' = Lerp(yaw, RMul(Rescaled(Mean(gaze_history_x'), dead_zone),
                                     sensitivity), smoothing)
            /\ pitch' = Lerp(pitch,
                   RMax(RInt(-PitchLimit), RMin(RInt(PitchLimit),
                        RMul(RNeg(Rescaled(Mean(gaze_history_y'), dead_zone)),
                             sensitivity))), smoothing)]_vars

(* one axis exactly on the edge of a non-empty dead zone, the other at +1 *)
C9_Witness ==
    /\ IsUpdate(op)
    /\ gaze_history_x # <<>>
    /\ RLt(Zero, dead_zone)
    /\ RAbs(Mean(gaze_history_y)) = dead_zone
    /\ Mean(gaze_history_x) = One

Scenario ==
    /\ smoothing = R(1, 2) /\ sensitivity = RInt(60)
    /\ dead_zone = R(1, 5) /\ history_size = 1
IsEdgeSample(o) == IsUpdate(o) /\ o.gx = One /\ o.gy = R(1, 2)

(* C10: with smoothing 0.5, sensitivity 60, dead_zone 0.2, history_size 1
   and pitch limit 80, a fresh filter fed (1.0, 0.5) is at yaw 30, pitch 0,
   and fed (1.0, 0.5) again is at yaw 45, pitch 0. *)
C10_Scenario ==
    [][Scenario /\ nSteps = 1 /\ IsEdgeSample(op) /\ IsEdgeSample(op') =>
        /\ yaw = RInt(30) /\ pitch = Zero
        /\ yaw' = RInt(45) /\ pitch' = Zero]_vars

C10_Witness ==
    /\ Scenario /\ nSteps = 2 /\ nUpdates = 2 /\ IsEdgeSample(op)
    /\ yaw = RInt(45) /\ pitch = Zero

IsKey(o) == o.kind \in {"K_UP", "K_DOWN", "K_EQUALS", "K_MINUS"}

(* C11: a key press that changes sensitivity or smoothing leaves the
   histories, yaw and pitch as they were, and the update that follows it
   computes its target with the new sensitivity and takes its step with the
   new smoothing. *)
C11_ChangeTakesEffect ==
    [][/\ (IsKey(op') => UNCHANGED camera)
       /\ (IsKey(op) /\ IsUpdate(op') /\ ~raised' =>
             LET ty == RMul(Rescaled(Mean(gaze_history_x'), dead_zone), sensitivity')
                 tp == RMax(RInt(-PitchLimit), RMin(RInt(PitchLimit),
                         RMul(RNeg(Rescaled(Mean(gaze_history_y'), dead_zone)),
                              sensitivity')))
             IN  /\ yaw' = RAdd(yaw, RMul(RSub(ty, yaw), smoothing'))
                 /\ pitch' = RAdd(pitch, RMul(RSub(tp, pitch), smoothing')))]_vars

(* defaults, update (1, 0.5) to yaw 9, "=" to smoothing 0.2, update (1, 0.5)
   again: yaw is 9 + (60 - 9) * 0.2 *)
C11_Witness ==
    /\ IsUpdate(op) /\ nUpdates = 2 /\ nSteps = 3
    /\ history_size = 5 /\ smoothing = R(1, 5) /\ sensitivity = RInt(60)
    /\ gaze_history_x = <<One, One>>
    /\ yaw = R(96, 5)

(* C14: a non-absent update takes target_yaw = rescaled_x * sensitivity and
   target_pitch = -rescaled_y * sensitivity clamped to the pitch limit, then
   yaw += (target_yaw - yaw) * smoothing and likewise pitch; with smoothing
   in (0,1] each new value lies between the old one and its target, and is
   the target when smoothing = 1. *)
C14_TargetThenRelax ==
    [][IsUpdate(op') /\ ~raised' =>
        LET rx == Rescaled(Mean(gaze_history_x'), dead_zone)
            ry == Rescaled(Mean(gaze_history_y'), dead_zone)
            ty == RMul(rx, sensitivity)
            raw == RNeg(RMul(ry, sensitivity))
            tp == IF RLt(RInt(PitchLimit), raw) THEN RInt(PitchLimit)
                  ELSE IF RLt(raw, RInt(-PitchLimit)) THEN RInt(-PitchLimit)
                  ELSE raw
        IN  /\ yaw' = RAdd(yaw, RMul(RSub(ty, yaw), smoothing))
            /\ pitch' = RAdd(pitch, RMul(RSub(tp, pitch), smoothing))
            /\ Between(yaw, yaw', ty)
            /\ Between(pitch, pitch', tp)
            /\ (smoothing = One => yaw' = ty /\ pitch' = tp)]_vars

(* smoothing 1 and a pitch target beyond the limit: yaw is on its target
   and pitch on the limit after the second update *)
C14_Witness ==
    /\ IsUpdate(op) /\ nUpdates = 2
    /\ smoothing = One
    /\ yaw = TargetYaw(gaze_history_x, dead_zone, sensitivity)
    /\ yaw # Zero
    /\ RLt(RInt(PitchLimit),
           RAbs(RMul(DeadZone(Mean(gaze_history_y), dead_zone), sensitivity)))
    /\ pitch = RInt(-PitchLimit)

SmoothingInRange(s) == RLe(R(1, 20), s) /\ RLe(s, R(1, 2))
SensitivityInRange(s) == RLe(RInt(MinSensitivity), s)

(* C15: under any sequence of Up / Down / = / - presses smoothing stays in
   [0.05, 0.5], inside (0,1], and sensitivity stays >= 5; Up adds 5 to the
   sensitivity whatever its value. The Camera as constructed (the only one
   with history_size 5) is in these ranges in every state, and no step
   leaves them. *)
C15_KeyRanges ==
    /\ [](history_size = 5 =>
            /\ SmoothingInRange(smoothing) /\ SensitivityInRange(sensitivity)
            /\ RLt(Zero, smoothing) /\ RLe(smoothing, One))
    /\ [][/\ (SmoothingInRange(smoothing) => SmoothingInRange(smoothing'))
           /\ (SensitivityInRange(sensitivity) => SensitivityInRange(sensitivity'))
           /\ (op'.kind = "K_UP" =>
                 sensitivity' = RAdd(sensitivity, RInt(SensitivityStep)))]_vars

(* "-" pressed three times on the Camera as constructed: 0.15, 0.10, 0.05
   and 0.05 again *)
C15_Witness ==
    /\ op.kind = "K_MINUS" /\ nSteps = 3 /\ nUpdates = 0
    /\ history_size = 5 /\ sensitivity = RInt(60)
    /\ smoothing = R(1, 20)

InUnit(h) == \A i \in 1..Len(h) : RLe(RAbs(h[i]), One)
HistoryInRange(hx, hy) == InUnit(hx) /\ InUnit(hy)
OrientationBounded(y, p, sens) ==
    /\ RLe(RAbs(y), sens)
    /\ RLe(RAbs(p), RMin(sens, RInt(PitchLimit)))

(* C16: with a fixed configuration and every sample inside [0,1] x [0,1],
   |yaw| <= sensitivity and |pitch| <= min(sensitivity, pitch limit) after
   every update: it holds while no key was pressed and the history still
   holds every sample fed, all in range, and an update that leaves only
   in-range samples in the history keeps it. *)
C16_OrientationBounded ==
    /\ [](nSteps = nUpdates /\ nUpdates = Len(gaze_history_x)
          /\ HistoryInRange(gaze_history_x, gaze_history_y)
          => OrientationBounded(yaw, pitch, sensitivity))
    /\ [][/\ IsUpdate(op') /\ ~raised'
            /\ HistoryInRange(gaze_history_x', gaze_history_y')
            /\ OrientationBounded(yaw, pitch, sensitivity)
            => OrientationBounded(yaw', pitch', sensitivity')]_vars

(* smoothing 1, sensitivity 90, sample (0, 1) twice: yaw is at -sensitivity
   and pitch at -80, both bounds met *)
C16_Witness ==
    /\ IsUpdate(op) /\ nSteps = 2 /\ nUpdates = 2
    /\ HistoryInRange(gaze_history_x, gaze_history_y) /\ Len(gaze_history_x) = 2
    /\ yaw = RNeg(sensitivity)
    /\ pitch = RInt(-PitchLimit)
    /\ RLt(RInt(PitchLimit), sensitivity)
(* C12: update never ends in an error: in every reachable state, for an
   absent, an in-range or an out-of-range sample, the call completes. *)
C12_UpdateNeverRaises == op.kind \in {"update", "absent"} => ~raised
(* C13: two Camera instances do not interfere: an update or a change of
   configuration on one leaves the histories, yaw, pitch and configuration of
   the other as they were, in every interleaving. *)
C13_NoInterference ==
    [][IF op'.kind \in {"other_update", "other_K_UP", "other_K_EQUALS"}
       THEN UNCHANGED <<camera, config>>
       ELSE UNCHANGED other]_vars

(* both instances were updated and reconfigured, in turn, and differ *)
C13_Witness ==
    /\ op.kind = "other_update"
    /\ nUpdates = 1 /\ nSteps = 4
    /\ gaze_history_x = <<RInt(-1)>> /\ other.gaze_history_x = <<One>>
    /\ sensitivity = RInt(55) /\ other.sensitivity = RInt(65)
    /\ RLt(yaw, Zero) /\ RLt(Zero, other.yaw)

(* C17: in DemoApp, once use_webcam is false it is never true again; every
   later get_gaze returns the mouse position; the frame on which the webcam
   read fails returns (None, None) and does not update the camera. *)
C17_MouseFallback ==
    /\ [][~app.use_webcam => ~app'.use_webcam]_vars
    /\ [][app'.last = "frame" /\ ~app.use_webcam =>
            /\ app'.src = "mouse"
            /\ app'.mouse \in MousePositions
            /\ app'.gaze = <<R(app'.mouse[1], 800), R(app'.mouse[2], 600)>>
            /\ op'.gx = app'.gaze[1] /\ op'.gy = app'.gaze[2]]_vars
    /\ [][app'.last = "frame" /\ app'.src = "readfail" =>
            /\ app'.gaze = <<None, None>>
            /\ ~app'.use_webcam
            /\ op'.kind = "frame"
            /\ UNCHANGED <<camera, config, nUpdates>>]_vars

(* the webcam fed the camera, W was pressed (the capture object stays), and
   the next frame took the mouse position and fed it to the camera *)
C17_Witness ==
    /\ app.last = "frame" /\ app.src = "mouse"
    /\ ~app.use_webcam /\ app.cap /\ app.tracker
    /\ app.mouse = <<600, 450>>
    /\ op = [kind |-> "update", gx |-> R(3, 4), gy |-> R(3, 4)]
    /\ gaze_history_x = <<One, R(1, 2)>>
====
